---- MODULE Spec2Model ----
(***************************************************************************)
(* The exam session engine of ExamBuddy: ExamService                       *)
(* (backend/src/services/exam_service.py) driven through the handlers of   *)
(* the exams router (backend/src/api/exams.py).                            *)
(*                                                                         *)
(* Time.  An instant is a whole number of ticks, TicksPerSecond ticks to   *)
(* the second.  A datetime is a record [t, aware]: the instant and whether *)
(* the value carries a timezone (naive values are read as UTC by the       *)
(* code).  time_spent (a float of seconds in the code) is kept in ticks;   *)
(* int(time_spent) is IntSeconds.  A score (a float rounded to two         *)
(* decimals in the code) is kept in hundredths of a percent.               *)
(*                                                                         *)
(* Optional values: None is the empty tuple, Some(x) the 1-tuple <<x>>.    *)
(*                                                                         *)
(* Scope.  The DynamoDB table behind DynamoDBClient is an external         *)
(* collaborator: put_item, get_item and delete_item are taken to succeed.  *)
(* Requests are served one at a time.  The Question Source hands           *)
(* start_exam a list of valid Question objects; the lists are kept short   *)
(* (StartExamRequest asks for 5 to 100 questions, the engine never reads   *)
(* that number again).                                                     *)
(***************************************************************************)
EXTENDS Integers, Sequences, FiniteSets, TLC

\* ------------------------------------------------------------------ bounds
\* Session ids uuid4 can hand out in one run.
MaxSessions == 2
\* Ticks per second of the model's clock.
TicksPerSecond == 2
\* Handler calls that return (and so change the state) in one run.
MaxOps == 3

\* -------------------------------------------------------- program constants
\* validate_answer: time_limit_with_grace = question.time_limit_seconds + 2
Grace == 2
\* Question.time_limit_seconds: ge=10
MinTimeLimit == 10
\* Attempt.question_count: ge=1
MinQuestionCount == 1
\* _persist_session: TTL = utcnow() + timedelta(hours=24), in seconds
SessionTtlSeconds == 86400

\* HTTP status codes the router uses
HTTP_200_OK == 200
HTTP_201_CREATED == 201
HTTP_400_BAD_REQUEST == 400
HTTP_404_NOT_FOUND == 404
HTTP_500_INTERNAL_SERVER_ERROR == 500

\* ------------------------------------------------------------------ values
None == <<>>
Some(x) == <<x>>
IsSome(o) == Len(o) = 1
TheValue(o) == o[1]

\* The earliest deadline a question can have, in ticks after its anchor.
Deadline == (MinTimeLimit + Grace) * TicksPerSecond
\* Instants the clock and the clients can name: 0, the earliest deadline
\* counted from 0, and one tick past it.
Times == {0, Deadline, Deadline + 1}

\* ExamMode (exam_service.py)
EXAM == "exam"
TEST == "test"
ExamMode == {EXAM, TEST}

\* Question: the fields the engine and the router read.
Question(id, txt, correct, limit) ==
    [ question_id        |-> id,
      text               |-> txt,
      answer_options     |-> <<"a", "b">>,
      correct_index      |-> correct,
      time_limit_seconds |-> limit ]

Q1 == Question("q1", "text-1", 0, MinTimeLimit)
Q2 == Question("q2", "text-2", 1, MinTimeLimit + 1)

\* What the Question Source can return to start_exam.
QuestionLists == { <<>>, <<Q1>>, <<Q2, Q1>> }
\* Question ids a client can put in a request.
QuestionIds == {"q1", "q2"}
\* Answer indices a client can put in a request.
AnswerIndices == {0, 1}
SessionIds == 1..MaxSessions

\* ------------------------------------------------------------ datetimes
DateTime(t, aware) == [t |-> t, aware |-> aware]

\* datetime.isoformat(): the text carries the offset of an aware value.
isoformat(dt) == <<dt.t, IF dt.aware THEN "+00:00" ELSE "">>

\* A string a client can send that is no ISO timestamp.
BadStamp == <<"not-a-timestamp">>
IsIso(s) == Len(s) = 2

\* datetime.fromisoformat() of a well-formed string.
fromisoformat(s) == DateTime(s[1], s[2] # "")

\* dt.replace(tzinfo=timezone.utc) when dt.tzinfo is None
AssumeUtc(dt) == IF dt.aware THEN dt ELSE DateTime(dt.t, TRUE)

\* (a - b).total_seconds(), in ticks; both operands are aware.
total_seconds(a, b) == a.t - b.t

\* int(x) of a non-negative number of seconds held in ticks.
IntSeconds(ticks) == ticks \div TicksPerSecond

\* ------------------------------------------------------------ ExamSession
\* ExamSession.__init__ with the cursor starting at 1.
ExamSessionCursorAtOne(session_id, mode, questions, started_at) ==
    [ session_id             |-> session_id,
      mode                   |-> mode,
      questions              |-> questions,
      question_count         |-> Len(questions),
      started_at             |-> started_at,
      answers                |-> <<>>,
      current_question_index |-> 1,
      is_review_phase        |-> FALSE,
      review_started_at      |-> None,
      completed              |-> FALSE,
      last_action_time       |-> started_at,
      presented_times        |-> <<>> ]

\* ExamSession.__init__
ExamSession(session_id, mode, questions, started_at) ==
    [ session_id             |-> session_id,
      mode                   |-> mode,
      questions              |-> questions,
      question_count         |-> Len(questions),
      started_at             |-> started_at,
      answers                |-> <<>>,
      current_question_index |-> 0,
      is_review_phase        |-> FALSE,
      review_started_at      |-> None,
      completed              |-> FALSE,
      last_action_time       |-> started_at,
      presented_times        |-> <<>> ]

\* [q.question_id for q in self.questions]
question_ids(questions) == [i \in 1..Len(questions) |-> questions[i].question_id]

\* ExamSession.to_dict
to_dict(session) ==
    [ session_id             |-> session.session_id,
      mode                   |-> session.mode,
      question_count         |-> session.question_count,
      question_ids           |-> question_ids(session.questions),
      started_at             |-> isoformat(session.started_at),
      answers                |-> session.answers,
      current_question_index |-> session.current_question_index,
      is_review_phase        |-> session.is_review_phase,
      review_started_at      |-> IF IsSome(session.review_started_at)
                                 THEN Some(isoformat(TheValue(session.review_started_at)))
                                 ELSE None,
      completed              |-> session.completed,
      last_action_time       |-> Some(isoformat(session.last_action_time)),
      presented_times        |-> session.presented_times ]

\* A dict d with d[k] = v set (added or overwritten).
DictSet(d, k, v) == [x \in (DOMAIN d) \cup {k} |-> IF x = k THEN v ELSE d[x]]
\* A dict d without key k.
DictDel(d, k) == [x \in (DOMAIN d) \ {k} |-> d[x]]


\* ------------------------------------------------------------- exceptions
\* The ValueErrors the service raises, by message.
SessionNotFound == "Session not found"
QuestionNotFound == "Question not found in session"
ReviewOnlyInExam == "Review phase only available in Exam mode"
\* pydantic's ValidationError (a ValueError) from Attempt(...)
AttemptInvalid == "Attempt validation error"

\* start_exam (router): the HTTPException raised for an empty question list
NoQuestionsFound == "No questions found (HTTPException)"

\* ----------------------------------------------------------- ExamService
\* get_session that turns a stored record back into a session, without its
\* questions.
get_session_rehydrating(sessions, stored, session_id) ==
    IF session_id \in DOMAIN sessions
    THEN Some(sessions[session_id])
    ELSE IF session_id \in DOMAIN stored
    THEN LET r == stored[session_id]
         IN  Some([ session_id             |-> r.session_id,
                    mode                   |-> r.mode,
                    questions              |-> <<>>,
                    question_count         |-> r.question_count,
                    started_at             |-> fromisoformat(r.started_at),
                    answers                |-> r.answers,
                    current_question_index |-> r.current_question_index,
                    is_review_phase        |-> r.is_review_phase,
                    review_started_at      |-> None,
                    completed              |-> r.completed,
                    last_action_time       |-> fromisoformat(TheValue(r.last_action_time)),
                    presented_times        |-> r.presented_times ])
    ELSE None

\* ExamService.get_session: the cache entry, else None (a record found in
\* the Session Store is not turned back into a session).
get_session(sessions, stored, session_id) ==
    IF session_id \in DOMAIN sessions
    THEN Some(sessions[session_id])
    ELSE IF session_id \in DOMAIN stored THEN None ELSE None

\* FindQuestion that falls back on the first question of the session.
FindQuestionOrFirst(session, question_id) ==
    LET hits == { i \in 1..Len(session.questions) :
                    session.questions[i].question_id = question_id }
    IN  IF hits = {} THEN Some(session.questions[1])
        ELSE Some(session.questions[CHOOSE i \in hits : \A j \in hits : i <= j])

\* next((q for q in session.questions if q.question_id == question_id), None)
FindQuestion(session, question_id) ==
    LET hits == { i \in 1..Len(session.questions) :
                    session.questions[i].question_id = question_id }
    IN  IF hits = {} THEN None
        ELSE Some(session.questions[CHOOSE i \in hits : \A j \in hits : i <= j])

\* validate_answer: the timing anchor.
PrevTime(session, question_id) ==
    IF question_id \in DOMAIN session.presented_times
    THEN IF IsIso(session.presented_times[question_id])
         THEN fromisoformat(session.presented_times[question_id])
         ELSE session.last_action_time
    ELSE session.last_action_time

\* TimeSpent without the guard against negative deltas.
TimeSpentUnclamped(submitted_at, prev_time) ==
    total_seconds(AssumeUtc(submitted_at), AssumeUtc(prev_time))

\* validate_answer: time_spent, clamped at zero.
TimeSpent(submitted_at, prev_time) ==
    LET d == total_seconds(AssumeUtc(submitted_at), AssumeUtc(prev_time))
    IN  IF d < 0 THEN 0 ELSE d

\* Accepted with a strict comparison.
AcceptedStrictly(time_spent, question) ==
    time_spent < (question.time_limit_seconds + Grace) * TicksPerSecond

\* validate_answer: accepted = time_spent <= time_limit_seconds + 2
Accepted(time_spent, question) ==
    time_spent <= (question.time_limit_seconds + Grace) * TicksPerSecond

\* IsCorrect reading the correct index as 1-based.
IsCorrectOneBased(answer_index, question) == answer_index + 1 = question.correct_index

\* validate_answer: is_correct = answer_index == question.correct_index
IsCorrect(answer_index, question) == answer_index = question.correct_index

\* validate_answer: the dict stored in session.answers[question_id]
AnswerEntry(answer_index, submitted_at, time_spent, is_correct, accepted) ==
    [ answer_index |-> answer_index,
      submitted_at |-> isoformat(submitted_at),
      time_spent   |-> time_spent,
      is_correct   |-> is_correct,
      accepted     |-> accepted ]

\* RecordAnswer that updates the index and the timestamp of an entry already
\* there and keeps its other fields.
RecordAnswerMerging(answers, question_id, entry) ==
    IF question_id \in DOMAIN answers
    THEN DictSet(answers, question_id,
                 [ answers[question_id] EXCEPT !.answer_index = entry.answer_index,
                                               !.submitted_at = entry.submitted_at ])
    ELSE DictSet(answers, question_id, entry)

\* RecordAnswer that keeps an entry already there (dict.setdefault).
RecordAnswerOnce(answers, question_id, entry) ==
    IF question_id \in DOMAIN answers THEN answers ELSE DictSet(answers, question_id, entry)

\* validate_answer: session.answers[question_id] = {...}
RecordAnswer(answers, question_id, entry) == DictSet(answers, question_id, entry)

\* validate_answer: position of the question, else the current index.
QuestionIndex(session, question_id) ==
    LET hits == { i \in 1..Len(session.questions) :
                    session.questions[i].question_id = question_id }
    IN  IF hits = {} THEN session.current_question_index
        ELSE (CHOOSE i \in hits : \A j \in hits : i <= j) - 1

\* The cursor set to the second operand, without the max.
TakeSecond(a, b) == b

\* max(a, b)
Max(a, b) == IF a >= b THEN a ELSE b

\* AnswerResult that reveals the correct index in every mode.
AnswerResultRevealing(mode, question, is_correct, time_spent, accepted) ==
    [ is_correct    |-> is_correct,
      time_spent    |-> time_spent,
      accepted      |-> accepted,
      correct_index |-> question.correct_index ]

\* validate_answer: the returned dict.
AnswerResult(mode, question, is_correct, time_spent, accepted) ==
    IF mode = TEST
    THEN [ is_correct    |-> is_correct,
           time_spent    |-> time_spent,
           accepted      |-> accepted,
           correct_index |-> question.correct_index ]
    ELSE [ is_correct    |-> is_correct,
           time_spent    |-> time_spent,
           accepted      |-> accepted ]

\* ExamService.validate_answer on a session and a question found in it:
\* the session after the call and the returned dict.
validate_answer(session, question, answer_index, submitted_in) ==
    LET question_id  == question.question_id
        prev_time    == PrevTime(session, question_id)
        submitted_at == AssumeUtc(submitted_in)
        time_spent   == TimeSpent(submitted_at, prev_time)
        accepted     == Accepted(time_spent, question)
        is_correct   == IsCorrect(answer_index, question)
        entry        == AnswerEntry(answer_index, submitted_at, time_spent,
                                    is_correct, accepted)
    IN  [ session |->
            [ session EXCEPT
                !.answers = RecordAnswer(session.answers, question_id, entry),
                !.current_question_index =
                    Max(session.current_question_index,
                        QuestionIndex(session, question_id) + 1),
                !.last_action_time = submitted_at ],
          result |-> AnswerResult(session.mode, question, is_correct,
                                  time_spent, accepted) ]

\* round(x, 2) of the fraction num/den times 100, in hundredths: to the
\* nearest hundredth, a tie to the even one.
Round2(num, den) ==
    LET x == num * 10000
        q == x \div den
        r == x % den
    IN  IF 2 * r < den THEN q
        ELSE IF 2 * r > den THEN q + 1
        ELSE IF q % 2 = 0 THEN q ELSE q + 1

\* CorrectCount that counts late answers too.
CorrectCountIgnoringAccepted(answers) ==
    Cardinality({ k \in DOMAIN answers : answers[k].is_correct })

\* calculate_score: answers that are correct and accepted.
CorrectCount(answers) ==
    Cardinality({ k \in DOMAIN answers : answers[k].is_correct /\ answers[k].accepted })

\* Score without the factor 100 (a fraction, not a percentage).
ScoreAsFraction(correct_count, total_questions) ==
    IF total_questions > 0 THEN Round2(correct_count, total_questions * 100) ELSE 0

\* calculate_score: round(score, 2), score = 0 without questions.
Score(correct_count, total_questions) ==
    IF total_questions > 0 THEN Round2(correct_count, total_questions) ELSE 0

\* calculate_score: one entry of answers_detail.
AnswerDetail(question, answers) ==
    LET has == question.question_id \in DOMAIN answers
        a   == answers[question.question_id]
    IN  [ question_id    |-> question.question_id,
          question_text  |-> question.text,
          selected_index |-> IF has THEN Some(a.answer_index) ELSE None,
          correct_index  |-> question.correct_index,
          is_correct     |-> IF has THEN a.is_correct ELSE FALSE,
          time_spent     |-> IF has THEN a.time_spent ELSE 0,
          accepted       |-> IF has THEN a.accepted ELSE FALSE ]

\* AnswersDetail built from the answered questions only.
AnswersDetailAnsweredOnly(session) ==
    LET answered == SelectSeq(session.questions,
                              LAMBDA q : q.question_id \in DOMAIN session.answers)
    IN  [ i \in 1..Len(answered) |-> AnswerDetail(answered[i], session.answers) ]

\* calculate_score: answers_detail, one entry per question of the session.
AnswersDetail(session) ==
    [ i \in 1..Len(session.questions) |->
        AnswerDetail(session.questions[i], session.answers) ]

\* ExamService.calculate_score on a session.
calculate_score(session) ==
    LET total_questions == Len(session.questions)
        correct_count   == CorrectCount(session.answers)
    IN  [ score           |-> Score(correct_count, total_questions),
          correct_count   |-> correct_count,
          total_questions |-> total_questions,
          answered_count  |-> Cardinality(DOMAIN session.answers),
          answers         |-> AnswersDetail(session) ]

\* ReviewTime with the half rounded up.
ReviewTimeRoundedUp(questions) ==
    LET Sum[i \in 0..Len(questions)] ==
            IF i = 0 THEN 0 ELSE Sum[i - 1] + questions[i].time_limit_seconds
    IN  (Sum[Len(questions)] + 1) \div 2

\* start_review_phase: review_time = total_time // 2
ReviewTime(questions) ==
    LET Sum[i \in 0..Len(questions)] ==
            IF i = 0 THEN 0 ELSE Sum[i - 1] + questions[i].time_limit_seconds
    IN  Sum[Len(questions)] \div 2

\* The mode check left out.
ReviewAllowedInAnyMode(session) == TRUE

\* start_review_phase: if session.mode != ExamMode.EXAM: raise ValueError
ReviewAllowed(session) == session.mode = EXAM

\* start_review_phase that enters the review phase only when every question
\* has a recorded answer.
start_review_phase_after_full_pass(session, utcnow) ==
    LET full  == \A i \in 1..Len(session.questions) :
                    session.questions[i].question_id \in DOMAIN session.answers
        after == [ session EXCEPT !.is_review_phase = full,
                                  !.review_started_at =
                                      IF full THEN Some(utcnow) ELSE None ]
    IN  [ session |-> after,
          result  |-> [ questions           |-> session.questions,
                        answers             |-> session.answers,
                        review_time_seconds |-> ReviewTime(session.questions),
                        review_started_at   |-> isoformat(utcnow) ] ]

\* ExamService.start_review_phase on an exam-mode session.
start_review_phase(session, utcnow) ==
    LET after == [ session EXCEPT !.is_review_phase = TRUE,
                                  !.review_started_at = Some(utcnow) ]
    IN  [ session |-> after,
          result  |-> [ questions           |-> session.questions,
                        answers             |-> session.answers,
                        review_time_seconds |-> ReviewTime(session.questions),
                        review_started_at   |-> isoformat(utcnow) ] ]

\* record_presentation that leaves last_action_time alone.
record_presentation_keeping_action_time(session, question_id, presented_at, utcnow) ==
    LET at == IF IsSome(presented_at) THEN TheValue(presented_at) ELSE utcnow
    IN  [ session EXCEPT
            !.presented_times = DictSet(session.presented_times, question_id,
                                        isoformat(at)) ]

\* record_presentation with the missing presented_at defaulting to the epoch.
record_presentation_epoch_default(session, question_id, presented_at, utcnow) ==
    LET at == IF IsSome(presented_at) THEN TheValue(presented_at)
              ELSE DateTime(0, FALSE)
    IN  [ session EXCEPT
            !.presented_times = DictSet(session.presented_times, question_id,
                                        isoformat(at)),
            !.last_action_time = at ]

\* ExamService.record_presentation on a session.
record_presentation(session, question_id, presented_at, utcnow) ==
    LET at == IF IsSome(presented_at) THEN TheValue(presented_at) ELSE utcnow
    IN  [ session EXCEPT
            !.presented_times = DictSet(session.presented_times, question_id,
                                        isoformat(at)),
            !.last_action_time = at ]

\* finalize_exam: int(sum(a.get('time_spent', 0) for a in answers.values()))
TotalTimeSeconds(session) ==
    LET RECURSIVE SumSpent(_)
        SumSpent(keys) ==
            IF keys = {} THEN 0
            ELSE LET k == CHOOSE x \in keys : TRUE
                 IN  session.answers[k].time_spent + SumSpent(keys \ {k})
    IN  IntSeconds(SumSpent(DOMAIN session.answers))

\* finalize_exam: the AnswerRecord of an answered question.
AnswerRecord(question, answer_data) ==
    [ question_id        |-> question.question_id,
      selected_index     |-> answer_data.answer_index,
      is_correct         |-> answer_data.is_correct,
      time_spent_seconds |-> IntSeconds(answer_data.time_spent),
      answered_at        |-> answer_data.submitted_at ]

\* AnswerRecords that leaves out the answers submitted past the limit.
AnswerRecordsAcceptedOnly(session) ==
    LET Recs[i \in 0..Len(session.questions)] ==
            IF i = 0 THEN <<>>
            ELSE IF /\ session.questions[i].question_id \in DOMAIN session.answers
                    /\ session.answers[session.questions[i].question_id].accepted
                 THEN Append(Recs[i - 1],
                             AnswerRecord(session.questions[i],
                                 session.answers[session.questions[i].question_id]))
                 ELSE Recs[i - 1]
    IN  Recs[Len(session.questions)]

\* finalize_exam: answer_records, the answered questions in list order.
AnswerRecords(session) ==
    LET Recs[i \in 0..Len(session.questions)] ==
            IF i = 0 THEN <<>>
            ELSE IF session.questions[i].question_id \in DOMAIN session.answers
                 THEN Append(Recs[i - 1],
                             AnswerRecord(session.questions[i],
                                 session.answers[session.questions[i].question_id]))
                 ELSE Recs[i - 1]
    IN  Recs[Len(session.questions)]

\* ModeValue without the mapping of test to practice.
ModeValueUnmapped(mode) == mode

\* finalize_exam: 'practice' if session.mode == ExamMode.TEST else mode value
ModeValue(mode) == IF mode = TEST THEN "practice" ELSE mode

\* AttemptStatus.COMPLETED
COMPLETED == "completed"

\* finalize_exam: the Attempt built from the session.  of_session is not a
\* field of Attempt: it records which session the attempt was built from.
BuildAttempt(attempt_id, session, score_data, utcnow) ==
    [ attempt_id         |-> attempt_id,
      of_session         |-> session.session_id,
      mode               |-> ModeValue(session.mode),
      status             |-> COMPLETED,
      question_count     |-> session.question_count,
      score              |-> score_data.score,
      correct_count      |-> score_data.correct_count,
      started_at         |-> isoformat(session.started_at),
      completed_at       |-> isoformat(utcnow),
      total_time_seconds |-> TotalTimeSeconds(session),
      answers            |-> AnswerRecords(session) ]

\* Attempt's field constraints (question_count ge=1, score in 0..100).
AttemptValid(attempt) ==
    /\ attempt.question_count >= MinQuestionCount
    /\ attempt.score >= 0
    /\ attempt.score <= 100 * 100

\* _persist_session: the item put in the Session Store.
persist_item(session, utcnow) ==
    DictSet(to_dict(session), "TTL", IntSeconds(utcnow.t) + SessionTtlSeconds)

\* _persist_session that writes only the first record of a session.
persist_session_if_absent(stored, session, utcnow) ==
    IF session.session_id \in DOMAIN stored THEN stored
    ELSE DictSet(stored, session.session_id, persist_item(session, utcnow))

\* _persist_session
persist_session(stored, session, utcnow) ==
    DictSet(stored, session.session_id, persist_item(session, utcnow))

\* ------------------------------------------------------------------- state
VARIABLES
    active_sessions,  \* ExamService.active_sessions: session id -> ExamSession
    store,            \* the Session Store: session id -> persisted item
    attempts,         \* the Attempt Archive, in the order the items were put
    now,              \* the server's clock, in ticks
    uuids,            \* session ids handed out by uuid4 so far
    ops,              \* handler calls that returned, so far
    resp              \* the last handler's request and outcome

vars == <<active_sessions, store, attempts, now, uuids, ops, resp>>

\* datetime.utcnow(): naive; datetime.now(timezone.utc): aware
utcnow == DateTime(now, FALSE)
now_utc == DateTime(now, TRUE)

\* What a handler leaves behind: the operation, the request of a call that
\* returned (empty for one that raised), the ValueError or HTTPException
\* raised inside it (None when it returned), the service's return value, and
\* the HTTP status and body sent.
Response(op, session_id, request, raised, result, status, body) ==
    [ op         |-> op,
      session_id |-> session_id,
      request    |-> request,
      raised     |-> raised,
      result     |-> result,
      status     |-> status,
      body       |-> body ]

NoResponse == Response("none", 0, <<>>, None, None, 0, <<>>)

Init ==
    /\ active_sessions = <<>>
    /\ store = <<>>
    /\ attempts = <<>>
    /\ now = 0
    /\ uuids = 0
    /\ ops = 0
    /\ resp = NoResponse

\* Requests are served one at a time: a handler runs when the response of
\* the one before it has been sent (Deliver).
Ready == resp = NoResponse
\* A call that returns is within the run's budget.
InBudget == ops < MaxOps

\* The server's clock advances between two requests.
Tick ==
    /\ Ready
    /\ \E t \in Times : t > now /\ now' = t
    /\ UNCHANGED <<active_sessions, store, attempts, uuids, ops, resp>>

\* SanitizedQuestion that passes the whole question on.
SanitizedQuestionLeaking(q) == q

\* start_exam: one entry of questions_data (the correct answer left out).
SanitizedQuestion(q) ==
    [ question_id        |-> q.question_id,
      text               |-> q.text,
      answer_options     |-> q.answer_options,
      time_limit_seconds |-> q.time_limit_seconds ]

\* start_exam: questions_data
SanitizedQuestions(questions) ==
    [ i \in 1..Len(questions) |-> SanitizedQuestion(questions[i]) ]

\* start_exam: total_time
TotalTime(questions) ==
    LET Sum[i \in 0..Len(questions)] ==
            IF i = 0 THEN 0 ELSE Sum[i - 1] + questions[i].time_limit_seconds
    IN  Sum[Len(questions)]

\* ExamService.start_exam_session: the new session.
start_exam_session(session_id, mode, questions) ==
    ExamSession(session_id, mode, questions, now_utc)

\* A handler call that raised: nothing but the response changes.
Raised(op, session_id, raised, result, status) ==
    /\ resp' = Response(op, session_id, <<>>, raised, result, status, <<>>)
    /\ UNCHANGED <<active_sessions, store, attempts, now, uuids, ops>>

\* A handler call that returned.
Returned(op, session_id, request, result, status, body) ==
    /\ ops' = ops + 1
    /\ now' = now
    /\ resp' = Response(op, session_id, request, None, Some(result), status, body)

\* POST /api/exams/start with the questions the Question Source returned.
\* The HTTPException raised for an empty list is raised inside the try and
\* caught by its `except Exception`.
start_exam(mode, questions) ==
    /\ Ready
    /\ IF questions = <<>>
       THEN Raised("start", 0, Some(NoQuestionsFound), None,
                   HTTP_500_INTERNAL_SERVER_ERROR)
       ELSE
         /\ InBudget
         /\ uuids < MaxSessions
         /\ LET session_id == uuids + 1
                session    == start_exam_session(session_id, mode, questions)
            IN  /\ uuids' = session_id
                /\ active_sessions' = DictSet(active_sessions, session_id, session)
                /\ store' = persist_session(store, session, utcnow)
                /\ Returned("start", session_id,
                            [mode |-> mode, questions |-> questions],
                            session, HTTP_201_CREATED,
                            [ session_id         |-> session_id,
                              questions          |-> SanitizedQuestions(questions),
                              mode               |-> mode,
                              started_at         |-> isoformat(session.started_at),
                              total_time_seconds |-> TotalTime(questions) ])
         /\ UNCHANGED attempts

\* record_presentation (router): the client's presented_at parsed, None when
\* it is missing or no ISO timestamp.
ParsePresentedAt(stamp) ==
    IF IsSome(stamp) /\ IsIso(TheValue(stamp))
    THEN Some(fromisoformat(TheValue(stamp)))
    ELSE None

\* POST /api/exams/{session_id}/present
present(session_id, question_id, stamp) ==
    /\ Ready
    /\ LET found == get_session(active_sessions, store, session_id)
       IN  IF ~IsSome(found)
           THEN Raised("present", session_id, Some(SessionNotFound), None,
                       HTTP_404_NOT_FOUND)
           ELSE LET after == record_presentation(TheValue(found), question_id,
                                                 ParsePresentedAt(stamp), utcnow)
                IN  /\ InBudget
                    /\ active_sessions' = DictSet(active_sessions, session_id, after)
                    /\ store' = persist_session(store, after, utcnow)
                    /\ Returned("present", session_id,
                                [question_id |-> question_id, presented_at |-> stamp],
                                TRUE, HTTP_200_OK,
                                [message |-> "presentation recorded"])
                    /\ UNCHANGED <<attempts, uuids>>

\* SubmitAnswerResponse(**result): correct_index defaults to None.
SubmitAnswerResponse(result) ==
    [ is_correct    |-> result.is_correct,
      time_spent    |-> result.time_spent,
      accepted      |-> result.accepted,
      correct_index |-> IF "correct_index" \in DOMAIN result
                        THEN Some(result.correct_index) ELSE None ]

\* POST /api/exams/{session_id}/answers: submitted_at is the server's utcnow().
submit_answer(session_id, question_id, answer_index) ==
    /\ Ready
    /\ LET found    == get_session(active_sessions, store, session_id)
           question == IF IsSome(found)
                       THEN FindQuestion(TheValue(found), question_id) ELSE None
       IN  IF ~IsSome(found)
           THEN Raised("submit", session_id, Some(SessionNotFound), None,
                       HTTP_404_NOT_FOUND)
           ELSE IF ~IsSome(question)
           THEN Raised("submit", session_id, Some(QuestionNotFound), None,
                       HTTP_404_NOT_FOUND)
           ELSE LET out == validate_answer(TheValue(found), TheValue(question),
                                           answer_index, utcnow)
                IN  /\ InBudget
                    /\ active_sessions' = DictSet(active_sessions, session_id, out.session)
                    /\ store' = persist_session(store, out.session, utcnow)
                    /\ Returned("submit", session_id,
                                [ question_id  |-> question_id,
                                  answer_index |-> answer_index,
                                  submitted_at |-> utcnow ],
                                out.result, HTTP_200_OK,
                                SubmitAnswerResponse(out.result))
                    /\ UNCHANGED <<attempts, uuids>>

\* GET /api/exams/{session_id}/review
get_review_phase(session_id) ==
    /\ Ready
    /\ LET found == get_session(active_sessions, store, session_id)
       IN  IF ~IsSome(found)
           THEN Raised("review", session_id, Some(SessionNotFound), None,
                       HTTP_400_BAD_REQUEST)
           ELSE IF ~ReviewAllowed(TheValue(found))
           THEN Raised("review", session_id, Some(ReviewOnlyInExam), None,
                       HTTP_400_BAD_REQUEST)
           ELSE LET out == start_review_phase(TheValue(found), utcnow)
                IN  /\ InBudget
                    /\ active_sessions' = DictSet(active_sessions, session_id, out.session)
                    /\ store' = persist_session(store, out.session, utcnow)
                    /\ Returned("review", session_id, <<>>, out.result,
                                HTTP_200_OK, out.result)
                    /\ UNCHANGED <<attempts, uuids>>

\* finalize_exam (router): FinalizeExamResponse built from the Attempt.
FinalizeExamResponse(attempt) ==
    [ attempt_id      |-> attempt.attempt_id,
      score           |-> attempt.score,
      correct_count   |-> attempt.correct_count,
      total_questions |-> attempt.question_count,
      answers         |-> attempt.answers,
      completed_at    |-> attempt.completed_at ]

\* finalize_exam that persists the session without marking it completed.
finalize_exam_unmarked(sessions, stored, archive, session, attempt) ==
    [ attempts        |-> Append(archive, attempt),
      store           |-> persist_session(stored, session, utcnow),
      active_sessions |-> DictDel(sessions, session.session_id) ]

\* finalize_exam that puts the Attempt a second time.
finalize_exam_resaving(sessions, stored, archive, session, attempt) ==
    LET done == [session EXCEPT !.completed = TRUE]
    IN  [ attempts        |-> Append(Append(archive, attempt), attempt),
          store           |-> persist_session(stored, done, utcnow),
          active_sessions |-> DictDel(sessions, session.session_id) ]

\* finalize_exam without the removal from active_sessions.
finalize_exam_keeping(sessions, stored, archive, session, attempt) ==
    LET done == [session EXCEPT !.completed = TRUE]
    IN  [ attempts        |-> Append(archive, attempt),
          store           |-> persist_session(stored, done, utcnow),
          active_sessions |-> DictSet(sessions, session.session_id, done) ]

\* ExamService.finalize_exam, from the Attempt on: the archive, the store and
\* the working set after the call.
finalize_exam(sessions, stored, archive, session, attempt) ==
    LET done == [session EXCEPT !.completed = TRUE]
    IN  [ attempts        |-> Append(archive, attempt),
          store           |-> persist_session(stored, done, utcnow),
          active_sessions |-> DictDel(sessions, session.session_id) ]

\* POST /api/exams/{session_id}/submit
finalize(session_id) ==
    /\ Ready
    /\ LET found == get_session(active_sessions, store, session_id)
       IN  IF ~IsSome(found)
           THEN Raised("finalize", session_id, Some(SessionNotFound), None,
                       HTTP_404_NOT_FOUND)
           ELSE LET session == TheValue(found)
                    attempt == BuildAttempt(Len(attempts) + 1, session,
                                            calculate_score(session), utcnow)
                IN  IF ~AttemptValid(attempt)
                    THEN Raised("finalize", session_id, Some(AttemptInvalid), None,
                                HTTP_404_NOT_FOUND)
                    ELSE LET out == finalize_exam(active_sessions, store, attempts,
                                                  session, attempt)
                         IN  /\ InBudget
                             /\ attempts' = out.attempts
                             /\ store' = out.store
                             /\ active_sessions' = out.active_sessions
                             /\ Returned("finalize", session_id, <<>>, attempt,
                                         HTTP_200_OK, FinalizeExamResponse(attempt))
                             /\ UNCHANGED uuids

\* cancel_exam without the delete_item on the Session Store.
cancel_exam_keeping_record(sessions, stored, session_id) ==
    [ active_sessions |-> DictDel(sessions, session_id),
      store           |-> stored ]

\* ExamService.cancel_exam on a session found: the working set and the store
\* after the call.
cancel_exam(sessions, stored, session_id) ==
    [ active_sessions |-> DictDel(sessions, session_id),
      store           |-> DictDel(stored, session_id) ]

\* DELETE /api/exams/{session_id}.  The HTTPException raised when the service
\* returns False is raised inside the try and caught by its `except Exception`.
cancel(session_id) ==
    /\ Ready
    /\ LET found == get_session(active_sessions, store, session_id)
       IN  IF ~IsSome(found)
           THEN Raised("cancel", session_id,
                       Some("Session not found (HTTPException)"), Some(FALSE),
                       HTTP_500_INTERNAL_SERVER_ERROR)
           ELSE LET out == cancel_exam(active_sessions, store, session_id)
                IN  /\ InBudget
                    /\ active_sessions' = out.active_sessions
                    /\ store' = out.store
                    /\ Returned("cancel", session_id, <<>>, TRUE, HTTP_200_OK,
                                [message |-> "Exam cancelled successfully"])
                    /\ UNCHANGED <<attempts, uuids>>

\* Strings a client can send as presented_at.
ClientStamps == { isoformat(DateTime(t, TRUE)) : t \in Times } \cup {BadStamp}

\* The response leaves the server.
Deliver ==
    /\ resp # NoResponse
    /\ resp' = NoResponse
    /\ UNCHANGED <<active_sessions, store, attempts, now, uuids, ops>>

\* What a client can send as presented_at.
PresentedAtInputs == {None} \cup { Some(c) : c \in ClientStamps }

Next ==
    \/ Tick
    \/ Deliver
    \/ \E mode \in ExamMode, questions \in QuestionLists : start_exam(mode, questions)
    \/ \E sid \in SessionIds, qid \in QuestionIds, stamp \in PresentedAtInputs :
            present(sid, qid, stamp)
    \/ \E sid \in SessionIds, qid \in QuestionIds, idx \in AnswerIndices :
            submit_answer(sid, qid, idx)
    \/ \E sid \in SessionIds : get_review_phase(sid)
    \/ \E sid \in SessionIds : finalize(sid)
    \/ \E sid \in SessionIds : cancel(sid)

Spec == Init /\ [][Next]_vars


\* ------------------------------------------------- the Scoring Engine alone
\* calculate_score as a function of a session: the sessions it is applied to
\* carry any answers map over their questions, an empty question list
\* included.
Q3 == Question("q3", "text-3", 0, MinTimeLimit)
ScoreQuestionLists == QuestionLists \cup { <<Q1, Q2, Q3>> }

\* The entries validate_answer can have recorded for one question: either
\* index, in time or late.
ScoreEntries(question) ==
    { AnswerEntry(idx, DateTime(0, TRUE), spent,
                  IsCorrect(idx, question), Accepted(spent, question)) :
        idx \in AnswerIndices, spent \in {0, Deadline + 1} }

\* Every answers map over a subset of the questions.
AnswerMaps(questions) ==
    LET ids      == { questions[i].question_id : i \in 1..Len(questions) }
        of(id)   == CHOOSE q \in { questions[i] : i \in 1..Len(questions) } :
                        q.question_id = id
        entries  == UNION { ScoreEntries(of(id)) : id \in ids }
    IN  UNION { { m \in [keys -> entries] :
                    \A id \in keys : m[id] \in ScoreEntries(of(id)) } :
                keys \in SUBSET ids }

\* A session with the given answers map.
ScoreSession(mode, questions, answers) ==
    [ ExamSession(1, mode, questions, DateTime(0, TRUE)) EXCEPT !.answers = answers ]

InitScore ==
    /\ \E mode \in ExamMode, questions \in ScoreQuestionLists :
         \E answers \in AnswerMaps(questions) :
            active_sessions = DictSet(<<>>, 1, ScoreSession(mode, questions, answers))
    /\ store = <<>>
    /\ attempts = <<>>
    /\ now = 0
    /\ uuids = 1
    /\ ops = 0
    /\ resp = NoResponse

\* ExamService.calculate_score(session_id)
score(session_id) ==
    /\ Ready
    /\ LET found == get_session(active_sessions, store, session_id)
       IN  IF ~IsSome(found)
           THEN Raised("score", session_id, Some(SessionNotFound), None, 0)
           ELSE /\ resp' = Response("score", session_id, <<>>, None,
                                    Some(calculate_score(TheValue(found))), 0, <<>>)
                /\ UNCHANGED <<active_sessions, store, attempts, now, uuids, ops>>

NextScore == \E sid \in SessionIds : score(sid)

SpecScore == InitScore /\ [][NextScore]_vars


\* ------------------------------------------- the two-question exam scenario
\* One exam-mode session over two questions with limits 60 s and 90 s,
\* driven through the same handlers at the instants 0, 10, 15 and 200 s.
\* The scenario takes ScenarioCalls calls that return (start, present,
\* submit, present, submit, finalize); ops starts that far below the budget.
ScenarioCalls == 6
ScenarioQ1 == Question("q1", "text-1", 0, 60)
ScenarioQ2 == Question("q2", "text-2", 1, 90)
ScenarioQuestions == <<ScenarioQ1, ScenarioQ2>>
ScenarioTimes == { 0, 10 * TicksPerSecond, 15 * TicksPerSecond, 200 * TicksPerSecond }

InitScenario ==
    /\ active_sessions = <<>>
    /\ store = <<>>
    /\ attempts = <<>>
    /\ now = 0
    /\ uuids = 0
    /\ ops = MaxOps - ScenarioCalls
    /\ resp = NoResponse

\* The server's clock advances to a later instant of the scenario.
TickScenario ==
    /\ Ready
    /\ \E t \in ScenarioTimes : t > now /\ now' = t
    /\ UNCHANGED <<active_sessions, store, attempts, uuids, ops, resp>>

NextScenario ==
    \/ TickScenario
    \/ Deliver
    \/ start_exam(EXAM, ScenarioQuestions)
    \/ \E qid \in QuestionIds : present(1, qid, None)
    \/ \E qid \in QuestionIds, idx \in AnswerIndices : submit_answer(1, qid, idx)
    \/ finalize(1)

SpecScenario == InitScenario /\ [][NextScenario]_vars

\* ------------------------------------------------- after a process restart
\* A new process: ExamService.__init__ leaves active_sessions empty, while
\* the Session Store still holds the record of a session the process
\* before had started (and perhaps recorded an answer to q1 for).  The ids
\* that process handed out are not handed out again; one id is left.
RestartSessions ==
    LET fresh(mode, questions) == ExamSession(1, mode, questions, DateTime(0, TRUE))
    IN  { fresh(mode, questions) :
            mode \in ExamMode, questions \in QuestionLists \ {<<>>} }
        \cup
        { validate_answer(fresh(mode, questions), Q1, idx,
                          DateTime(0, FALSE)).session :
            mode \in ExamMode, questions \in QuestionLists \ {<<>>},
            idx \in AnswerIndices }

InitRestart ==
    /\ active_sessions = <<>>
    /\ \E session \in RestartSessions :
          store = persist_session(<<>>, session, DateTime(0, FALSE))
    /\ attempts = <<>>
    /\ now = 0
    /\ uuids = MaxSessions - 1
    /\ ops = 0
    /\ resp = NoResponse

\* The requests of Next, presentations without a client timestamp.
NextRestart ==
    \/ Tick
    \/ Deliver
    \/ \E mode \in ExamMode, questions \in QuestionLists : start_exam(mode, questions)
    \/ \E sid \in SessionIds, qid \in QuestionIds : present(sid, qid, None)
    \/ \E sid \in SessionIds, qid \in QuestionIds, idx \in AnswerIndices :
            submit_answer(sid, qid, idx)
    \/ \E sid \in SessionIds : get_review_phase(sid)
    \/ \E sid \in SessionIds : finalize(sid)
    \/ \E sid \in SessionIds : cancel(sid)

SpecRestart == InitRestart /\ [][NextRestart]_vars

\* ================================================================ claims
\* The last handler call was `op` and it returned.
ReturnedFrom(op) == resp.op = op /\ resp.raised = None
\* The step taken is a call of `op` that returned.
StepReturned(op) == resp = NoResponse /\ resp'.op = op /\ resp'.raised = None
\* The step taken is a call of `op` on session s, returned or raised.
StepOn(op, s) == resp = NoResponse /\ resp'.op = op /\ resp'.session_id = s

\* The attempts archived for session s.
AttemptsOf(archive, s) == SelectSeq(archive, LAMBDA a : a.of_session = s)
\* A session id that was handed out and is no longer in the working set:
\* its session was finalized or cancelled.
Ended(s) == s \in 1..uuids /\ s \notin DOMAIN active_sessions
\* The question with id q of a session.
QuestionOf(session, q) ==
    CHOOSE x \in { session.questions[i] : i \in 1..Len(session.questions) } :
        x.question_id = q

\* C1: terminal states are absorbing.  A finalize or cancel that returns
\* takes its session out of the working set, a session leaves the working
\* set in no other way, and once a session has ended every step leaves it
\* out of the working set, leaves its stored record and its archived
\* attempts as they are, and answers present, submit, review and finalize
\* on it with "Session not found" and cancel with False.
C1_TerminalAbsorbing ==
    [][ \A s \in SessionIds :
          /\ ( /\ resp = NoResponse /\ resp'.session_id = s
               /\ resp'.op \in {"finalize", "cancel"} /\ resp'.raised = None )
             => s \notin DOMAIN active_sessions'
          /\ ( s \in DOMAIN active_sessions /\ s \notin DOMAIN active_sessions' )
             => ( /\ resp'.op \in {"finalize", "cancel"} /\ resp'.raised = None
                  /\ resp'.session_id = s )
          /\ Ended(s) =>
               /\ s \notin DOMAIN active_sessions'
               /\ AttemptsOf(attempts', s) = AttemptsOf(attempts, s)
               /\ (s \in DOMAIN store) = (s \in DOMAIN store')
               /\ s \in DOMAIN store => store'[s] = store[s]
               /\ \A op \in {"present", "submit", "review", "finalize"} :
                     StepOn(op, s) => resp'.raised = Some(SessionNotFound)
               /\ StepOn("cancel", s) =>
                     resp'.raised # None /\ resp'.result = Some(FALSE)
      ]_vars

\* C1 witness: a submit on a finalized session (its attempt is archived)
\* was answered "Session not found".
C1_Witness ==
    /\ resp.op = "submit"
    /\ resp.raised = Some(SessionNotFound)
    /\ Ended(resp.session_id)
    /\ Len(AttemptsOf(attempts, resp.session_id)) = 1

\* C2: after every submit that returned, accepted is exactly
\* time_spent <= time limit + 2 seconds, and the answer is recorded with
\* that flag, accepted or not.
C2_AcceptedIffWithinGrace ==
    ReturnedFrom("submit") =>
        LET session  == active_sessions[resp.session_id]
            q        == resp.request.question_id
            question == QuestionOf(session, q)
            result   == TheValue(resp.result)
        IN  /\ result.accepted =
                 (result.time_spent <= (question.time_limit_seconds + 2) * TicksPerSecond)
            /\ q \in DOMAIN session.answers
            /\ session.answers[q].accepted = result.accepted
            /\ session.answers[q].time_spent = result.time_spent

\* C2 witness: a submission one tick over limit + 2 seconds was not
\* accepted, and is recorded.
C2_Witness ==
    /\ ReturnedFrom("submit")
    /\ LET session  == active_sessions[resp.session_id]
           q        == resp.request.question_id
           question == QuestionOf(session, q)
       IN  /\ TheValue(resp.result).time_spent =
                (question.time_limit_seconds + 2) * TicksPerSecond + 1
           /\ ~TheValue(resp.result).accepted
           /\ q \in DOMAIN session.answers

\* The instant an ISO string written by the service denotes.
InstantOf(iso) == iso[1]

\* C3: a submit that returns reports time_spent = max(0, submitted_at -
\* anchor), the anchor being the instant recorded for the question by the
\* last presentation of it, else the session's last_action_time; a
\* presentation that returns records its instant for the question (over
\* any earlier one) and as last_action_time, a submit that returns leaves
\* submitted_at as last_action_time, and a new session has last_action_time
\* = started_at.
C3_TimeSpentFromAnchor ==
    [][ /\ StepReturned("submit") =>
             LET s      == resp'.session_id
                 before == active_sessions[s]
                 after  == active_sessions'[s]
                 q      == resp'.request.question_id
                 at     == resp'.request.submitted_at.t
                 anchor == IF q \in DOMAIN before.presented_times
                           THEN InstantOf(before.presented_times[q])
                           ELSE before.last_action_time.t
                 spent  == TheValue(resp'.result).time_spent
             IN  /\ spent = IF at - anchor > 0 THEN at - anchor ELSE 0
                 /\ spent >= 0
                 /\ after.answers[q].time_spent = spent
                 /\ after.last_action_time.t = at
                 /\ after.presented_times = before.presented_times
        /\ StepReturned("present") =>
             LET s      == resp'.session_id
                 before == active_sessions[s]
                 after  == active_sessions'[s]
                 q      == resp'.request.question_id
                 stamp  == resp'.request.presented_at
                 at     == IF IsSome(stamp) /\ TheValue(stamp) # BadStamp
                           THEN InstantOf(TheValue(stamp)) ELSE now
             IN  /\ InstantOf(after.presented_times[q]) = at
                 /\ after.last_action_time.t = at
                 /\ \A x \in DOMAIN before.presented_times \ {q} :
                        after.presented_times[x] = before.presented_times[x]
        /\ StepReturned("start") =>
             LET after == active_sessions'[resp'.session_id]
             IN  /\ after.last_action_time = after.started_at
                 /\ after.started_at.t = now
                 /\ after.presented_times = <<>>
      ]_vars

\* C3 witness: a submit earlier than the presentation recorded for its
\* question returned time_spent = 0.
C3_Witness ==
    /\ ReturnedFrom("submit")
    /\ LET session == active_sessions[resp.session_id]
           q       == resp.request.question_id
       IN  /\ q \in DOMAIN session.presented_times
           /\ InstantOf(session.presented_times[q]) > resp.request.submitted_at.t
           /\ TheValue(resp.result).time_spent = 0

\* C4: after every submit that returned, the returned is_correct and the
\* recorded one both equal (answer_index = the question's correct index),
\* accepted or not.
C4_IsCorrectIffIndexMatches ==
    ReturnedFrom("submit") =>
        LET session  == active_sessions[resp.session_id]
            q        == resp.request.question_id
            question == QuestionOf(session, q)
            expected == (resp.request.answer_index = question.correct_index)
        IN  /\ TheValue(resp.result).is_correct = expected
            /\ session.answers[q].is_correct = expected
            /\ resp.body.is_correct = expected

\* C4 witness: the right option submitted too late is recorded and returned
\* as correct and not accepted.
C4_Witness ==
    /\ ReturnedFrom("submit")
    /\ LET session == active_sessions[resp.session_id]
           q       == resp.request.question_id
       IN  /\ resp.request.answer_index = QuestionOf(session, q).correct_index
           /\ session.answers[q].is_correct
           /\ ~session.answers[q].accepted
           /\ TheValue(resp.result).is_correct

\* The answers of a session that are correct and accepted.
CountedAnswers(session) ==
    { q \in DOMAIN session.answers :
        session.answers[q].is_correct /\ session.answers[q].accepted }

\* C5: calculate_score returns correct_count = the number of recorded
\* answers that are correct and accepted; with N > 0 questions its score is
\* correct_count / N * 100 to the nearest hundredth, and with N = 0 it is 0.
C5_ScoreCountsAcceptedCorrect ==
    ReturnedFrom("score") =>
        LET session == active_sessions[resp.session_id]
            N       == Len(session.questions)
            k       == Cardinality(CountedAnswers(session))
            result  == TheValue(resp.result)
            diff    == result.score * N - k * 100 * 100
        IN  /\ result.correct_count = k
            /\ result.total_questions = N
            /\ N > 0 => /\ 2 * diff <= N
                        /\ 2 * diff >= 0 - N
            /\ N = 0 => result.score = 0

\* C5 witness: a session of three questions scored with one correct answer
\* accepted and one correct answer not accepted: correct_count 1, 33.33.
C5_Witness ==
    /\ ReturnedFrom("score")
    /\ LET session == active_sessions[resp.session_id]
       IN  /\ Len(session.questions) = 3
           /\ \E q \in DOMAIN session.answers :
                 session.answers[q].is_correct /\ ~session.answers[q].accepted
           /\ TheValue(resp.result).correct_count = 1
           /\ TheValue(resp.result).score = 3333

\* C6: the breakdown of calculate_score has one entry per question of the
\* session, in the order of the question list; the entry of a question
\* without a recorded answer has no selected index, is_correct = false,
\* time_spent = 0 and accepted = false.
C6_BreakdownCoversEveryQuestion ==
    ReturnedFrom("score") =>
        LET session == active_sessions[resp.session_id]
            detail  == TheValue(resp.result).answers
        IN  /\ Len(detail) = Len(session.questions)
            /\ \A i \in 1..Len(session.questions) :
                 /\ detail[i].question_id = session.questions[i].question_id
                 /\ session.questions[i].question_id \notin DOMAIN session.answers =>
                      /\ detail[i].selected_index = None
                      /\ detail[i].is_correct = FALSE
                      /\ detail[i].time_spent = 0
                      /\ detail[i].accepted = FALSE

\* C6 witness: a session of q2, q1 scored with only q1 answered.
C6_Witness ==
    /\ ReturnedFrom("score")
    /\ LET session == active_sessions[resp.session_id]
       IN  /\ question_ids(session.questions) = <<"q2", "q1">>
           /\ DOMAIN session.answers = {"q1"}
           /\ Len(TheValue(resp.result).answers) = 2

\* C7: the dict a submit returns has the key correct_index exactly when the
\* session's mode is test, and then it is the question's correct index; the
\* response of a submit to an exam-mode session carries no correct index.
C7_CorrectIndexOnlyInTestMode ==
    ReturnedFrom("submit") =>
        LET session  == active_sessions[resp.session_id]
            question == QuestionOf(session, resp.request.question_id)
            result   == TheValue(resp.result)
        IN  /\ ("correct_index" \in DOMAIN result) = (session.mode = "test")
            /\ session.mode = "test" =>
                 /\ result.correct_index = question.correct_index
                 /\ resp.body.correct_index = Some(question.correct_index)
            /\ session.mode = "exam" => resp.body.correct_index = None

\* C7 witness: a late, wrong submit to an exam-mode session returned without
\* a correct index.
C7_Witness ==
    /\ ReturnedFrom("submit")
    /\ active_sessions[resp.session_id].mode = "exam"
    /\ ~TheValue(resp.result).accepted
    /\ ~TheValue(resp.result).is_correct
    /\ resp.body.correct_index = None

\* C8: a start that returns creates a session whose questions are the input
\* list in its order and answers with that list in that order, no entry of
\* it holding a correct index; no step changes the question list of a
\* session in the working set, nor the question ids of its stored record.
C8_QuestionOrderFrozen ==
    [][ /\ StepReturned("start") =>
             LET session == active_sessions'[resp'.session_id]
                 input   == resp'.request.questions
                 sent    == resp'.body.questions
             IN  /\ session.questions = input
                 /\ Len(sent) = Len(input)
                 /\ \A i \in 1..Len(input) :
                      /\ sent[i].question_id = input[i].question_id
                      /\ "correct_index" \notin DOMAIN sent[i]
                      /\ "correct_index" \in DOMAIN input[i]
                 /\ store'[resp'.session_id].question_ids = question_ids(input)
        /\ \A s \in DOMAIN active_sessions \cap DOMAIN active_sessions' :
             active_sessions'[s].questions = active_sessions[s].questions
        /\ \A s \in DOMAIN store \cap DOMAIN store' :
             store'[s].question_ids = store[s].question_ids
      ]_vars

\* C8 witness: a session started with q2, q1 still has them in that order
\* after a submit for q1.
C8_Witness ==
    /\ ReturnedFrom("submit")
    /\ resp.request.question_id = "q1"
    /\ question_ids(active_sessions[resp.session_id].questions) = <<"q2", "q1">>

\* C9: a submit that returns leaves in answers[q] exactly its own selected
\* index, submitted_at, time_spent, is_correct and accepted, whatever was
\* recorded for q before; the other entries are unchanged, and the score
\* computed afterwards reads that record for q.
C9_ResubmitOverwrites ==
    [][ StepReturned("submit") =>
          LET s      == resp'.session_id
              before == active_sessions[s]
              after  == active_sessions'[s]
              q      == resp'.request.question_id
              result == TheValue(resp'.result)
              pos    == CHOOSE i \in 1..Len(after.questions) :
                            after.questions[i].question_id = q
              scored == calculate_score(after)
          IN  /\ after.answers[q] =
                   [ answer_index |-> resp'.request.answer_index,
                     submitted_at |-> <<resp'.request.submitted_at.t, "+00:00">>,
                     time_spent   |-> result.time_spent,
                     is_correct   |-> result.is_correct,
                     accepted     |-> result.accepted ]
              /\ DOMAIN after.answers = DOMAIN before.answers \cup {q}
              /\ \A x \in DOMAIN before.answers \ {q} :
                    after.answers[x] = before.answers[x]
              /\ scored.answers[pos].selected_index = Some(resp'.request.answer_index)
              /\ scored.answers[pos].is_correct = result.is_correct
              /\ scored.answers[pos].accepted = result.accepted
              /\ scored.answers[pos].time_spent = result.time_spent
              /\ scored.answered_count = Cardinality(DOMAIN after.answers)
      ]_vars

\* C9 witness: the second of two submits to a one-question test-mode
\* session (nothing else was done to it): the first, at instant 0, was
\* correct and on time; the record now is the second's, wrong and late.
C9_Witness ==
    /\ ReturnedFrom("submit")
    /\ uuids = 1
    /\ ops = 3
    /\ LET session == active_sessions[resp.session_id]
       IN  /\ session.mode = "test"
           /\ Len(session.questions) = 1
           /\ session.presented_times = <<>>
           /\ session.started_at.t = 0
           /\ DOMAIN session.answers = {resp.request.question_id}
           /\ session.answers[resp.request.question_id].time_spent > 0
           /\ ~session.answers[resp.request.question_id].is_correct
           /\ ~session.answers[resp.request.question_id].accepted

\* C10: a finalize that returns appends one Attempt to the archive, the
\* one it returns: status completed, score and correct_count those of
\* calculate_score on the session, question_count the number of questions,
\* mode practice for a test-mode session and exam for an exam-mode one, and
\* one answer record per answered question, in question-list order, with
\* that answer's selected index and correctness; the stored record of the
\* session has completed = true and the session has left the working set.
C10_FinalizeArchivesOneAttempt ==
    [][ StepReturned("finalize") =>
          LET s       == resp'.session_id
              session == active_sessions[s]
              attempt == TheValue(resp'.result)
              scored  == calculate_score(session)
              answered == SelectSeq(question_ids(session.questions),
                                    LAMBDA q : q \in DOMAIN session.answers)
          IN  /\ attempts' = Append(attempts, attempt)
              /\ attempt.of_session = s
              /\ attempt.status = "completed"
              /\ attempt.score = scored.score
              /\ attempt.correct_count = scored.correct_count
              /\ attempt.correct_count = Cardinality(CountedAnswers(session))
              /\ attempt.question_count = Len(session.questions)
              /\ attempt.mode = IF session.mode = "test" THEN "practice" ELSE "exam"
              /\ Len(attempt.answers) = Len(answered)
              /\ \A i \in 1..Len(answered) :
                    /\ attempt.answers[i].question_id = answered[i]
                    /\ attempt.answers[i].selected_index =
                          session.answers[answered[i]].answer_index
                    /\ attempt.answers[i].is_correct =
                          session.answers[answered[i]].is_correct
              /\ store'[s].completed = TRUE
              /\ s \notin DOMAIN active_sessions'
              /\ resp'.body.score = attempt.score
      ]_vars

\* C10 witness: a test-mode session of two questions, one of them answered,
\* was finalized: the archive holds its one attempt, mode practice.
C10_Witness ==
    /\ ReturnedFrom("finalize")
    /\ Len(attempts) = 1
    /\ attempts[1] = TheValue(resp.result)
    /\ attempts[1].mode = "practice"
    /\ attempts[1].question_count = 2
    /\ Len(attempts[1].answers) = 1
    /\ resp.session_id \notin DOMAIN active_sessions

\* C11: a finalize on a session id that is not in the working set (never
\* handed out, or already finalized or cancelled) raises "Session not
\* found", is answered 404 and leaves the Attempt Archive as it was; the
\* archive never holds two Attempts of one session id.
C11_FinalizeNotFoundArchivesNothing ==
    [][ /\ \A s \in SessionIds :
             ( StepOn("finalize", s) /\ s \notin DOMAIN active_sessions ) =>
                 /\ resp'.raised = Some(SessionNotFound)
                 /\ resp'.status = HTTP_404_NOT_FOUND
                 /\ attempts' = attempts
        /\ \A s \in SessionIds : Len(AttemptsOf(attempts', s)) <= 1
      ]_vars

\* C11 witness: a second finalize of a session whose Attempt is archived
\* was answered "Session not found".
C11_Witness ==
    /\ resp.op = "finalize"
    /\ resp.raised = Some(SessionNotFound)
    /\ Len(AttemptsOf(attempts, resp.session_id)) = 1
    /\ Len(attempts) = 1

\* C12: cancel_exam on a session id that is not in the working set returns
\* False (the service does not raise) and changes neither the working set,
\* the Session Store nor the Attempt Archive; on a live session it returns
\* True, removes the session from the working set and deletes its record
\* from the Session Store.  No step of cancel archives an Attempt, and a
\* session that ended without an Attempt (a cancelled one) never gets one.
C12_CancelRemovesAndArchivesNothing ==
    [][ \A s \in SessionIds :
          /\ ( StepOn("cancel", s) /\ s \notin DOMAIN active_sessions ) =>
                /\ resp'.result = Some(FALSE)
                /\ active_sessions' = active_sessions
                /\ store' = store
                /\ attempts' = attempts
          /\ ( StepOn("cancel", s) /\ s \in DOMAIN active_sessions ) =>
                /\ resp'.raised = None
                /\ resp'.result = Some(TRUE)
                /\ s \notin DOMAIN active_sessions'
                /\ s \notin DOMAIN store'
                /\ attempts' = attempts
          /\ ( Ended(s) /\ AttemptsOf(attempts, s) = <<>> ) =>
                AttemptsOf(attempts', s) = <<>>
      ]_vars

\* C12 witness: a live session that served one more call was cancelled: it is
\* gone from the working set and the store, and nothing is archived.
C12_Witness ==
    /\ ReturnedFrom("cancel")
    /\ resp.result = Some(TRUE)
    /\ ops = 3
    /\ Ended(resp.session_id)
    /\ resp.session_id \notin DOMAIN store
    /\ attempts = <<>>

\* C13: a review request on a live test-mode session raises "Review phase
\* only available in Exam mode" (400) and leaves the session and its stored
\* record as they were; a test-mode session never has is_review_phase set
\* or a review_started_at, so is_review_phase implies mode = exam.
C13_ReviewOnlyInExamMode ==
    [][ \A s \in SessionIds :
          /\ ( /\ StepOn("review", s)
               /\ s \in DOMAIN active_sessions
               /\ active_sessions[s].mode = TEST ) =>
                /\ resp'.raised = Some(ReviewOnlyInExam)
                /\ resp'.status = HTTP_400_BAD_REQUEST
                /\ active_sessions' = active_sessions
                /\ store' = store
          /\ s \in DOMAIN active_sessions' =>
                /\ active_sessions'[s].is_review_phase => active_sessions'[s].mode = EXAM
                /\ active_sessions'[s].mode = TEST =>
                      /\ ~active_sessions'[s].is_review_phase
                      /\ active_sessions'[s].review_started_at = None
                      /\ ~store'[s].is_review_phase
                      /\ store'[s].review_started_at = None
      ]_vars

\* C13 witness: a review request on a live test-mode session was refused.
C13_Witness ==
    /\ resp.op = "review"
    /\ resp.raised = Some(ReviewOnlyInExam)
    /\ resp.session_id \in DOMAIN active_sessions
    /\ active_sessions[resp.session_id].mode = TEST
    /\ DOMAIN active_sessions[resp.session_id].answers # {}

\* The sum of the time limits of a question list.
RECURSIVE LimitsSum(_)
LimitsSum(questions) ==
    IF questions = <<>> THEN 0
    ELSE Head(questions).time_limit_seconds + LimitsSum(Tail(questions))

\* C14: a review request that returned was made on an exam-mode session,
\* which now has is_review_phase set and review_started_at = the time of
\* the call; the result carries the session's whole question list in order,
\* the answers recorded so far, and review_time_seconds = the sum of the
\* questions' time limits halved and rounded down.
C14_ReviewReturnsHalfTime ==
    ReturnedFrom("review") =>
        LET session == active_sessions[resp.session_id]
            result  == TheValue(resp.result)
            total   == LimitsSum(session.questions)
        IN  /\ session.mode = EXAM
            /\ session.is_review_phase
            /\ session.review_started_at = Some(utcnow)
            /\ store[resp.session_id].is_review_phase
            /\ question_ids(result.questions) = question_ids(session.questions)
            /\ Len(result.questions) = session.question_count
            /\ result.answers = session.answers
            /\ 2 * result.review_time_seconds <= total
            /\ 2 * result.review_time_seconds + 2 > total

\* C14 witness: review of an exam session of q2 (11 s) and q1 (10 s) with
\* one answer recorded: 21 s halved is 10.
C14_Witness ==
    /\ ReturnedFrom("review")
    /\ LET session == active_sessions[resp.session_id]
           result  == TheValue(resp.result)
       IN  /\ question_ids(session.questions) = <<"q2", "q1">>
           /\ DOMAIN result.answers = {"q1"}
           /\ result.review_time_seconds = 10

C16_StartCreatesFreshSession ==
    [][ StepReturned("start") =>
          LET s == resp'.session_id
          IN  /\ s \notin DOMAIN active_sessions
              /\ s \notin DOMAIN store
              /\ s \notin 1..uuids
              /\ s \in DOMAIN active_sessions'
              /\ LET session == active_sessions'[s]
                 IN  /\ session.session_id = s
                     /\ session.mode = resp'.request.mode
                     /\ session.questions = resp'.request.questions
                     /\ ~session.completed
                     /\ ~session.is_review_phase
                     /\ session.review_started_at = None
                     /\ session.answers = <<>>
                     /\ session.presented_times = <<>>
                     /\ session.current_question_index = 0
                     /\ session.started_at = DateTime(now, TRUE)
                     /\ session.last_action_time = session.started_at
                     /\ s \in DOMAIN store'
                     /\ store'[s].session_id = s
                     /\ ~store'[s].completed
                     /\ store'[s].answers = <<>>
                     /\ store'[s].current_question_index = 0
                     /\ store'[s].last_action_time = Some(store'[s].started_at)
              /\ \A t \in DOMAIN active_sessions : active_sessions'[t] = active_sessions[t]
              /\ \A t \in DOMAIN store : store'[t] = store[t]
      ]_vars

\* C16 witness: a second session was started while the first, which has a
\* recorded answer, is live.
C16_Witness ==
    /\ ReturnedFrom("start")
    /\ resp.session_id = 2
    /\ DOMAIN active_sessions = {1, 2}
    /\ DOMAIN active_sessions[1].answers # {}
    /\ DOMAIN store = {1, 2}

\* The question ids of a session, as a set.
IdsOf(session) == { session.questions[i].question_id : i \in 1..Len(session.questions) }

\* C17: the keys of a live session's answers map are ids of its questions;
\* a submit for a question id that is not in the live session raises
\* "Question not found in session" (404) and leaves the session (answers,
\* current_question_index, last_action_time, presented_times) and its
\* stored record as they were.
C17_AnswersKeyedByOwnQuestions ==
    [][ \A s \in SessionIds :
          /\ s \in DOMAIN active_sessions' =>
                DOMAIN active_sessions'[s].answers \subseteq IdsOf(active_sessions'[s])
          /\ \A q \in QuestionIds :
               ( /\ resp = NoResponse
                 /\ s \in DOMAIN active_sessions
                 /\ q \notin IdsOf(active_sessions[s])
                 /\ submit_answer(s, q, 0) ) =>
                    /\ resp'.raised = Some(QuestionNotFound)
                    /\ resp'.status = HTTP_404_NOT_FOUND
                    /\ active_sessions'[s].answers = active_sessions[s].answers
                    /\ active_sessions'[s].current_question_index =
                          active_sessions[s].current_question_index
                    /\ active_sessions'[s].last_action_time =
                          active_sessions[s].last_action_time
                    /\ active_sessions'[s].presented_times =
                          active_sessions[s].presented_times
                    /\ store' = store
      ]_vars

\* C17 witness: a submit for q2 on a live session that has only q1, with an
\* answer to q1 recorded, was answered "Question not found in session".
C17_Witness ==
    /\ resp.op = "submit"
    /\ resp.raised = Some(QuestionNotFound)
    /\ resp.session_id \in DOMAIN active_sessions
    /\ LET session == active_sessions[resp.session_id]
       IN  /\ IdsOf(session) = {"q1"}
           /\ DOMAIN session.answers = {"q1"}

\* last_action_time of a session is earlier than its started_at.
ActedBeforeStart(session) == session.last_action_time.t < session.started_at.t
\* The step is a presentation on session s whose client-supplied
\* presented_at parses to an instant earlier than the session's started_at.
PresentedBeforeStart(s) ==
    /\ StepReturned("present")
    /\ resp'.session_id = s
    /\ IsSome(ParsePresentedAt(resp'.request.presented_at))
    /\ TheValue(ParsePresentedAt(resp'.request.presented_at)).t
          < active_sessions'[s].started_at.t

\* C18 as stated: every live session has last_action_time >= started_at.
C18_LastActionNotBeforeStart ==
    \A s \in DOMAIN active_sessions : ~ActedBeforeStart(active_sessions[s])

\* C18 amended: last_action_time becomes earlier than started_at only by a
\* recordPresentation whose client-supplied presented_at is earlier than
\* started_at, which sets last_action_time to that instant; a new session,
\* a presentation without a usable client timestamp or with one not
\* earlier than started_at, and every submitAnswer (stamped with the
\* server's time) leave last_action_time >= started_at.
C18_BeforeStartOnlyByEarlyPresentation ==
    [][ \A s \in DOMAIN active_sessions' :
          /\ ( /\ ActedBeforeStart(active_sessions'[s])
               /\ ( s \notin DOMAIN active_sessions
                    \/ ~ActedBeforeStart(active_sessions[s]) ) )
             => PresentedBeforeStart(s)
          /\ PresentedBeforeStart(s) =>
               active_sessions'[s].last_action_time =
                  TheValue(ParsePresentedAt(resp'.request.presented_at))
          /\ ( StepReturned("submit") /\ resp'.session_id = s ) =>
               ~ActedBeforeStart(active_sessions'[s])
      ]_vars

\* C18 witness: a session started after time 0 was presented a question
\* with the client's timestamp 0, and its last_action_time is now earlier
\* than its started_at.
C18_Witness ==
    /\ ReturnedFrom("present")
    /\ resp.session_id \in DOMAIN active_sessions
    /\ ActedBeforeStart(active_sessions[resp.session_id])
    /\ active_sessions[resp.session_id].last_action_time = DateTime(0, TRUE)

\* C19: no session in the working set has completed = true; a finalize
\* that returned left its session out of the working set with a stored
\* record marked completed; and a stored record marked completed is never
\* changed or removed by any later step.
C19_CompletedIsRemovedAndFrozen ==
    [][ /\ \A s \in DOMAIN active_sessions' : ~active_sessions'[s].completed
        /\ StepReturned("finalize") =>
              /\ resp'.session_id \notin DOMAIN active_sessions'
              /\ store'[resp'.session_id].completed
              /\ \A k \in DOMAIN store[resp'.session_id] \ {"completed", "TTL"} :
                    store'[resp'.session_id][k] = store[resp'.session_id][k]
        /\ \A s \in DOMAIN store :
              store[s].completed =>
                  /\ s \in DOMAIN store'
                  /\ store'[s] = store[s]
                  /\ s \notin DOMAIN active_sessions'
      ]_vars

\* C19 witness: a cancel on a finalized session, whose stored record is
\* marked completed and holds an answer, was refused.
C19_Witness ==
    /\ resp.op = "cancel"
    /\ resp.result = Some(FALSE)
    /\ resp.session_id \in DOMAIN store
    /\ store[resp.session_id].completed
    /\ DOMAIN store[resp.session_id].answers # {}

\* The 0-based position of the question with id q in a session that has it.
PositionOf(session, q) ==
    (CHOOSE i \in 1..Len(session.questions) :
        /\ session.questions[i].question_id = q
        /\ \A j \in 1..(i - 1) : session.questions[j].question_id # q) - 1

\* C20: current_question_index of a live session lies in
\* 0..question_count and never decreases; a submit that returned for the
\* question at position p leaves it at the larger of its previous value and
\* p + 1; every other step on a session that stays live (presentations,
\* review requests, calls that raised) leaves it unchanged.
C20_CursorMonotone ==
    [][ \A s \in DOMAIN active_sessions' :
          LET after == active_sessions'[s]
          IN  /\ after.current_question_index >= 0
              /\ after.current_question_index <= after.question_count
              /\ after.question_count = Len(after.questions)
              /\ s \in DOMAIN active_sessions =>
                   LET cur == active_sessions[s].current_question_index
                   IN  /\ after.current_question_index >= cur
                       /\ IF StepReturned("submit") /\ resp'.session_id = s
                          THEN LET p == PositionOf(after, resp'.request.question_id)
                               IN  after.current_question_index =
                                      IF cur >= p + 1 THEN cur ELSE p + 1
                          ELSE after.current_question_index = cur
      ]_vars

\* C20 witness: in a session of q2, q1 whose cursor stands at 2 after an
\* answer to q1 (position 1), an answer to q2 (position 0) was recorded and
\* the cursor is still 2.
C20_Witness ==
    /\ ReturnedFrom("submit")
    /\ resp.request.question_id = "q2"
    /\ LET session == active_sessions[resp.session_id]
       IN  /\ question_ids(session.questions) = <<"q2", "q1">>
           /\ DOMAIN session.answers = {"q1", "q2"}
           /\ session.current_question_index = 2

\* The instant a presentation request stands for: the client's presented_at
\* when it is there and parses, else the server's time.
PresentedInstant(request) ==
    IF IsSome(request.presented_at) /\ TheValue(request.presented_at) # BadStamp
    THEN DateTime(TheValue(request.presented_at)[1], TRUE)
    ELSE DateTime(now, FALSE)

\* C21: a presentation on a live session, for any question id (one of the
\* session or not), sets presented_times[question_id] to the ISO form of
\* presented_at (the server's time when the client's value is missing or
\* does not parse), over any earlier entry, sets last_action_time to the
\* same instant, changes no other field of the session, and the stored
\* record follows; on a session id that is not live it raises "Session not
\* found" (404) and changes nothing.
C21_PresentationSetsAnchorOnly ==
    [][ \A s \in SessionIds :
          /\ ( StepReturned("present") /\ resp'.session_id = s ) =>
               LET before == active_sessions[s]
                   after  == active_sessions'[s]
                   q      == resp'.request.question_id
                   at     == PresentedInstant(resp'.request)
               IN  /\ s \in DOMAIN active_sessions
                   /\ after.presented_times[q] = isoformat(at)
                   /\ after.last_action_time = at
                   /\ DOMAIN after.presented_times = DOMAIN before.presented_times \cup {q}
                   /\ \A k \in DOMAIN before.presented_times \ {q} :
                         after.presented_times[k] = before.presented_times[k]
                   /\ \A f \in DOMAIN before \ {"presented_times", "last_action_time"} :
                         after[f] = before[f]
                   /\ store'[s].presented_times = after.presented_times
          /\ ( StepOn("present", s) /\ s \notin DOMAIN active_sessions ) =>
               /\ resp'.raised = Some(SessionNotFound)
               /\ resp'.status = HTTP_404_NOT_FOUND
               /\ active_sessions' = active_sessions
               /\ store' = store
               /\ attempts' = attempts
      ]_vars

\* C21 witness: q2, which is not a question of the session, was presented
\* with an unparsable client timestamp after the clock had advanced: its
\* entry and last_action_time carry the server's time.
C21_Witness ==
    /\ ReturnedFrom("present")
    /\ resp.request = [question_id |-> "q2", presented_at |-> Some(BadStamp)]
    /\ LET session == active_sessions[resp.session_id]
       IN  /\ IdsOf(session) = {"q1"}
           /\ now > 0
           /\ session.started_at.t = 0
           /\ session.presented_times["q2"] = isoformat(DateTime(now, FALSE))
           /\ session.last_action_time = DateTime(now, FALSE)
           /\ ops = 3

\* C22: every handler call that failed (unknown session or question id,
\* review outside exam mode, empty question list) was answered with a
\* client error, a status in 400..499.
C22_FailuresAreClientErrors ==
    ( resp # NoResponse /\ resp.raised # None ) =>
        ( resp.status >= 400 /\ resp.status <= 499 )

\* The ISO form of the server's utcnow() at `seconds` seconds.
ServerStamp(seconds) == isoformat(DateTime(seconds * TicksPerSecond, FALSE))
\* The stored form of a submitted_at taken at `seconds` seconds.
SubmitStamp(seconds) == isoformat(DateTime(seconds * TicksPerSecond, TRUE))

\* The exam session of the scenario was finalized after q1 (limit 60 s) was
\* presented at 0 s and answered with its correct option at 10 s, and q2
\* (limit 90 s) was presented at 15 s and answered with a wrong option at
\* 200 s, as its stored record shows.
ScenarioPlayed ==
    /\ ReturnedFrom("finalize")
    /\ resp.session_id = 1
    /\ LET record == store[1]
       IN  /\ DOMAIN record.presented_times = {"q1", "q2"}
           /\ record.presented_times["q1"] = ServerStamp(0)
           /\ record.presented_times["q2"] = ServerStamp(15)
           /\ DOMAIN record.answers = {"q1", "q2"}
           /\ record.answers["q1"].submitted_at = SubmitStamp(10)
           /\ record.answers["q1"].answer_index = ScenarioQ1.correct_index
           /\ record.answers["q2"].submitted_at = SubmitStamp(200)
           /\ record.answers["q2"].answer_index # ScenarioQ2.correct_index

\* C23: in the scenario the answer to q1 is accepted (10 s spent), the
\* answer to q2 has time_spent = 185 s and is not accepted, finalize yields
\* correct_count = 1 and score = 50.00, and the breakdown entry of q2 has
\* is_correct = false and accepted = false.
C23_TwoQuestionScenario ==
    ScenarioPlayed =>
        LET answers   == store[1].answers
            attempt   == TheValue(resp.result)
            breakdown == calculate_score(
                            ScoreSession(EXAM, ScenarioQuestions, answers)).answers
        IN  /\ answers["q1"].time_spent = 10 * TicksPerSecond
            /\ answers["q1"].accepted
            /\ answers["q1"].is_correct
            /\ answers["q2"].time_spent = 185 * TicksPerSecond
            /\ ~answers["q2"].accepted
            /\ attempt.correct_count = 1
            /\ attempt.score = 50 * 100
            /\ attempt.question_count = 2
            /\ resp.body.score = 50 * 100
            /\ breakdown[2].question_id = "q2"
            /\ ~breakdown[2].is_correct
            /\ ~breakdown[2].accepted
            /\ \E i \in 1..Len(attempt.answers) :
                  /\ attempt.answers[i].question_id = "q2"
                  /\ ~attempt.answers[i].is_correct
                  /\ attempt.answers[i].time_spent_seconds = 185

\* C23 witness: the scenario was played to its end.
C23_Witness == ScenarioPlayed /\ Len(attempts) = 1 /\ now = 200 * TicksPerSecond

\* The stored record r is the serialization of session: every field of the
\* session, timestamps in ISO form, questions by id.
SerializationOf(r, session) ==
    /\ r.session_id = session.session_id
    /\ r.mode = session.mode
    /\ r.question_count = session.question_count
    /\ r.question_ids = [ i \in 1..Len(session.questions) |->
                            session.questions[i].question_id ]
    /\ r.started_at = <<session.started_at.t,
                        IF session.started_at.aware THEN "+00:00" ELSE "">>
    /\ r.answers = session.answers
    /\ r.presented_times = session.presented_times
    /\ r.current_question_index = session.current_question_index
    /\ r.last_action_time =
          Some(<<session.last_action_time.t,
                 IF session.last_action_time.aware THEN "+00:00" ELSE "">>)
    /\ r.is_review_phase = session.is_review_phase
    /\ r.review_started_at =
          IF session.review_started_at = None THEN None
          ELSE Some(<<TheValue(session.review_started_at).t,
                      IF TheValue(session.review_started_at).aware
                      THEN "+00:00" ELSE "">>)
    /\ r.completed = session.completed

\* C24: every session of the working set has a record in the Session Store
\* that is the serialization of the session as it is now, with an
\* expiration marker; after a start, presentation, submit or review request
\* that returned, the marker is the time of the call plus 24 hours.
C24_StoreMirrorsWorkingSet ==
    /\ \A s \in DOMAIN active_sessions :
          /\ s \in DOMAIN store
          /\ SerializationOf(store[s], active_sessions[s])
          /\ "TTL" \in DOMAIN store[s]
    /\ ( resp.op \in {"start", "present", "submit", "review"} /\ resp.raised = None ) =>
          store[resp.session_id].TTL = (now \div TicksPerSecond) + 24 * 60 * 60

\* C24 witness: an answer was recorded on a session that had a presentation
\* recorded before, and the stored record shows both.
C24_Witness ==
    /\ ReturnedFrom("submit")
    /\ now > 0
    /\ DOMAIN store[resp.session_id].answers # {}
    /\ DOMAIN store[resp.session_id].presented_times # {}
    /\ store[resp.session_id].current_question_index > 0

\* C25: a session id whose record is in the Session Store but which is not
\* in the working set is never brought back: presentations, submits,
\* review requests and finalize on it raise "Session not found", cancel
\* returns False, and the stored record stays as it is, with no Attempt.
C25_NeverRehydrated ==
    [][ /\ 1 \in DOMAIN store /\ 1 \in DOMAIN store'
        /\ store'[1] = store[1]
        /\ 1 \notin DOMAIN active_sessions'
        /\ AttemptsOf(attempts', 1) = <<>>
        /\ \A op \in {"present", "submit", "review", "finalize"} :
              StepOn(op, 1) => /\ resp'.raised = Some(SessionNotFound)
                               /\ resp'.status >= 400
        /\ StepOn("cancel", 1) => resp'.result = Some(FALSE)
      ]_vars

\* C25 witness: a submit on the session left in the store by the process
\* before, whose record holds an answer, was answered "Session not found"
\* while a session started by the new process is live.
C25_Witness ==
    /\ resp.op = "submit"
    /\ resp.session_id = 1
    /\ resp.raised = Some(SessionNotFound)
    /\ 1 \in DOMAIN store
    /\ ~store[1].completed
    /\ DOMAIN store[1].answers # {}
    /\ DOMAIN active_sessions # {}

\* Calls in flight at the same time.  The handlers are coroutines on one
\* event loop, and nothing they await suspends them (DynamoDBClient's
\* methods call boto3 synchronously), so of two calls in flight one runs
\* to its end before the other starts: a race resolves to one of the two
\* orders, and Next takes both.

\* C26: whichever of two submits for the same question runs last leaves
\* answers[q] equal to its own complete record (its index, its
\* submitted_at, and the time_spent, is_correct and accepted it returned)
\* and last_action_time equal to its submitted_at; a presentation that runs
\* last leaves last_action_time at its own timestamp.
C26_LastWriterWins ==
    /\ ReturnedFrom("submit") =>
          LET session == active_sessions[resp.session_id]
              request == resp.request
              result  == TheValue(resp.result)
          IN  /\ session.answers[request.question_id] =
                    [ answer_index |-> request.answer_index,
                      submitted_at |-> <<request.submitted_at.t, "+00:00">>,
                      time_spent   |-> result.time_spent,
                      is_correct   |-> result.is_correct,
                      accepted     |-> result.accepted ]
              /\ session.last_action_time = DateTime(request.submitted_at.t, TRUE)
              /\ request.submitted_at.t = now
    /\ ReturnedFrom("present") =>
          active_sessions[resp.session_id].last_action_time =
              PresentedInstant(resp.request)

\* C26 witness: a session whose only calls were two submits for q1 at the
\* same instant; the one with index 1 ran last and its record stands.
C26_Witness ==
    /\ ReturnedFrom("submit")
    /\ ops = 3
    /\ uuids = 1
    /\ now = 0
    /\ resp.request.question_id = "q1"
    /\ resp.request.answer_index = 1
    /\ LET session == active_sessions[resp.session_id]
       IN  /\ session.mode = EXAM
           /\ ~session.answers["q1"].is_correct
           /\ DOMAIN session.presented_times = {}
           /\ ~session.is_review_phase
           /\ session.current_question_index = 1

\* C27: of any number of finalize calls in flight on one live session, in
\* whatever order they run, exactly one archives an Attempt.  The archive
\* never holds two Attempts of one session id; a session with an archived
\* Attempt is out of the working set, so no later finalize finds it; the
\* finalize that returned is the one whose Attempt is in the archive; and
\* every finalize on a session whose Attempt is archived raised "Session
\* not found" (404).
C27_RacingFinalizesArchiveOnce ==
    /\ \A s \in SessionIds :
          /\ Len(AttemptsOf(attempts, s)) <= 1
          /\ Len(AttemptsOf(attempts, s)) = 1 => s \notin DOMAIN active_sessions
    /\ ReturnedFrom("finalize") =>
          AttemptsOf(attempts, resp.session_id) = <<TheValue(resp.result)>>
    /\ ( /\ resp.op = "finalize"
         /\ resp.raised # None
         /\ AttemptsOf(attempts, resp.session_id) # <<>> ) =>
          /\ resp.raised = Some(SessionNotFound)
          /\ resp.status = HTTP_404_NOT_FOUND

\* C27 witness: two finalize calls on one session at the same instant; the
\* first archived the Attempt (with a submitted answer in it), the second
\* was answered "Session not found".
C27_Witness ==
    /\ resp.op = "finalize"
    /\ resp.raised = Some(SessionNotFound)
    /\ Len(attempts) = 1
    /\ attempts[1].of_session = resp.session_id
    /\ attempts[1].completed_at = isoformat(utcnow)
    /\ attempts[1].question_count = 2
    /\ Len(attempts[1].answers) = 1
    /\ attempts[1].correct_count = 1

\* C28: no acknowledged answer is lost, in whatever order submits and
\* finalizes on one session run.  A submit that returns leaves its index
\* and its verdict in answers[q]; while the session is live that entry
\* changes only by a later submit for q that returns; a finalize that
\* returns archives, for every entry of answers, exactly one record with
\* that entry's selected index and correctness, counts the correct and
\* accepted entries in correct_count, and scores correct_count out of the
\* number of questions to the nearest hundredth of a percent; and a submit
\* that runs after the finalize is not acknowledged ("Session not found").
C28_NoAcknowledgedAnswerLost ==
    [][ \A s \in SessionIds :
          /\ ( s \in DOMAIN active_sessions /\ s \in DOMAIN active_sessions' ) =>
                \A q \in DOMAIN active_sessions[s].answers :
                    /\ q \in DOMAIN active_sessions'[s].answers
                    /\ active_sessions'[s].answers[q] # active_sessions[s].answers[q]
                       => /\ StepReturned("submit")
                          /\ resp'.session_id = s
                          /\ resp'.request.question_id = q
          /\ ( StepReturned("submit") /\ resp'.session_id = s ) =>
                LET entry == active_sessions'[s].answers[resp'.request.question_id]
                IN  /\ entry.answer_index = resp'.request.answer_index
                    /\ entry.is_correct = TheValue(resp'.result).is_correct
                    /\ entry.accepted = TheValue(resp'.result).accepted
          /\ ( StepReturned("finalize") /\ resp'.session_id = s ) =>
                LET session == active_sessions[s]
                    attempt == TheValue(resp'.result)
                    N       == Len(session.questions)
                    diff    == attempt.score * N - attempt.correct_count * 100 * 100
                IN  /\ \A q \in DOMAIN session.answers :
                          /\ Cardinality({ i \in 1..Len(attempt.answers) :
                                attempt.answers[i].question_id = q }) = 1
                          /\ \A i \in 1..Len(attempt.answers) :
                                attempt.answers[i].question_id = q =>
                                  /\ attempt.answers[i].selected_index =
                                        session.answers[q].answer_index
                                  /\ attempt.answers[i].is_correct =
                                        session.answers[q].is_correct
                    /\ attempt.correct_count = Cardinality(CountedAnswers(session))
                    /\ 2 * diff <= N
                    /\ 2 * diff >= -N
                    /\ attempt \in { attempts'[i] : i \in 1..Len(attempts') }
          /\ ( StepOn("submit", s) /\ Ended(s) ) =>
                resp'.raised = Some(SessionNotFound)
      ]_vars

\* C28 witness: after the start, two submits for q1 were acknowledged, the
\* last one with index 1 at 10 s, and the finalize that followed archived
\* an Attempt whose only record is q1 with index 1, counted as wrong.
C28_Witness ==
    /\ ReturnedFrom("finalize")
    /\ ops = MaxOps - ScenarioCalls + 4
    /\ Len(attempts) = 1
    /\ attempts[1] = TheValue(resp.result)
    /\ Len(attempts[1].answers) = 1
    /\ attempts[1].answers[1].question_id = "q1"
    /\ attempts[1].answers[1].selected_index = 1
    /\ attempts[1].answers[1].answered_at = <<10 * TicksPerSecond, "+00:00">>
    /\ attempts[1].correct_count = 0
    /\ attempts[1].score = 0

\* Every question of the session has a recorded answer.
AllAnswered(session) ==
    \A i \in 1..Len(session.questions) :
        session.questions[i].question_id \in DOMAIN session.answers

\* C29 as stated: a session in its review phase has a recorded answer for
\* every question (answers are never removed, so this follows from "all
\* questions had been answered when review started").
C29_ReviewOnlyAfterAllAnswered ==
    \A s \in DOMAIN active_sessions :
        active_sessions[s].is_review_phase => AllAnswered(active_sessions[s])

\* C29, amended: a review request enters the review phase on every live
\* exam-mode session, however many of its questions have a recorded answer.
\* It fails only on an unknown session id ("Session not found") or on a
\* test-mode session; when it returns, the session has is_review_phase set
\* and review_started_at at the time of the call.  is_review_phase implies
\* mode = exam and a review_started_at, and nothing about the answers.
C29_ReviewWhateverAnswered ==
    /\ \A s \in DOMAIN active_sessions :
          active_sessions[s].is_review_phase =>
              /\ active_sessions[s].mode = EXAM
              /\ active_sessions[s].review_started_at # None
    /\ ( resp.op = "review" /\ resp.raised # None ) =>
          \/ /\ resp.session_id \notin DOMAIN active_sessions
             /\ resp.raised = Some(SessionNotFound)
          \/ /\ resp.session_id \in DOMAIN active_sessions
             /\ active_sessions[resp.session_id].mode = TEST
             /\ resp.raised = Some(ReviewOnlyInExam)
    /\ ReturnedFrom("review") =>
          /\ active_sessions[resp.session_id].is_review_phase
          /\ active_sessions[resp.session_id].review_started_at = Some(utcnow)

\* C29 witness: a review request right after the start of a two-question
\* exam-mode session returned; the session is in its review phase with no
\* recorded answer.
C29_Witness ==
    /\ ReturnedFrom("review")
    /\ LET session == active_sessions[resp.session_id]
       IN  /\ session.is_review_phase
           /\ Len(session.questions) = 2
           /\ DOMAIN session.answers = {}
           /\ ~AllAnswered(session)

\* C30: the response to a start, a presentation, a submit or a review
\* request that returned on an exam-mode session carries no question's
\* correct index: no question in the body has the key correct_index, and
\* the submit response's correct_index is null.
C30_ExamResponsesHideCorrectIndex ==
    ( /\ resp.raised = None
      /\ resp.op \in {"start", "present", "submit", "review"}
      /\ resp.session_id \in DOMAIN active_sessions
      /\ active_sessions[resp.session_id].mode = EXAM ) =>
        /\ resp.op \in {"start", "review"} =>
              \A i \in 1..Len(resp.body.questions) :
                  "correct_index" \notin DOMAIN resp.body.questions[i]
        /\ resp.op = "submit" => resp.body.correct_index = None
        /\ resp.op = "present" => "correct_index" \notin DOMAIN resp.body

====
